---- MODULE Spec2Model ----
(***************************************************************************)
(* A model of examples/tablet.c: the USB Raw Gadget emulation of a pen     *)
(* tablet.  The control plane (ep0_loop) fetches events and answers        *)
(* control requests; the data plane (ep_int_in_loop) is a thread that      *)
(* walks a rectangle and writes 8-byte reports to the interrupt endpoint.  *)
(***************************************************************************)
EXTENDS Integers, Sequences, FiniteSets, TLC

(***************************************************************************)
(* Bounds of the model (not program constants).                            *)
(***************************************************************************)
\* Longest endpoint capability list USB_RAW_IOCTL_EPS_INFO hands back.
MaxEps == 2
\* Number of hardware endpoints USB_RAW_IOCTL_EP_ENABLE can hand out.
NumHwEps == 2
\* Number of generator iterations followed while the control plane runs.
MaxReports == 2
\* Number of fresh endpoint descriptors offered to assign_ep_address.
MaxFresh == 3
\* The count of SET_IDLE requests handled stops growing here.
SetIdleCap == 2
\* The calls of step are counted up to this number.
MaxSteps == 341

(***************************************************************************)
(* Program constants.                                                      *)
(***************************************************************************)
USB_DIR_IN == 128
USB_TYPE_MASK == 96
USB_TYPE_STANDARD == 0
USB_TYPE_CLASS == 32
USB_TYPE_VENDOR == 64
USB_REQ_GET_STATUS == 0
USB_REQ_GET_DESCRIPTOR == 6
USB_REQ_SET_CONFIGURATION == 9
USB_REQ_GET_INTERFACE == 10
HID_REQ_GET_REPORT == 1
HID_REQ_SET_REPORT == 9
HID_REQ_SET_IDLE == 10
HID_REQ_SET_PROTOCOL == 11
USB_DT_DEVICE == 1
USB_DT_CONFIG == 2
USB_DT_STRING == 3
USB_DT_INTERFACE == 4
USB_DT_ENDPOINT == 5
USB_DT_DEVICE_QUALIFIER == 6
HID_DT_HID == 33
HID_DT_REPORT == 34
USB_DT_ENDPOINT_SIZE == 7
USB_ENDPOINT_XFER_BULK == 2
USB_ENDPOINT_XFER_INT == 3
USB_RAW_EP_ADDR_ANY == 255
BCD_USB == 512
USB_VENDOR == 1386
USB_PRODUCT == 65451
LANG_EN_US == 1033
STRING_ID_MANUFACTURER == 1
STRING_ID_PRODUCT == 2
STRING_ID_SERIAL == 3
STRING_ID_CONFIG == 0
STRING_ID_INTERFACE == 0
EP_MAX_PACKET_CONTROL == 64
EP_MAX_PACKET_INT == 8
EP_NUM_INT_IN == 0
EP0_MAX_DATA == 256
BORDER == 2000
MAX_X == 16000
MAX_Y == 9000
STEPSIZE == 100
REPORT_LENGTH == 8

(***************************************************************************)
(* Fixed-width integer helpers.                                            *)
(***************************************************************************)
U8(n) == n % 256
U16(n) == n % 65536
\* The value of the byte b read through a (signed) char.
SChar(b) == IF b >= 128 THEN b - 256 ELSE b
\* __constant_cpu_to_le16 / __cpu_to_le16: the two bytes, low byte first.
le16(n) == <<U16(n) % 256, U16(n) \div 256>>

RECURSIVE BitOr(_, _)
BitOr(a, b) ==
    IF a = 0 THEN b
    ELSE IF b = 0 THEN a
    ELSE (IF a % 2 = 1 \/ b % 2 = 1 THEN 1 ELSE 0) + 2 * BitOr(a \div 2, b \div 2)

RECURSIVE BitAnd(_, _)
BitAnd(a, b) ==
    IF a = 0 \/ b = 0 THEN 0
    ELSE (IF a % 2 = 1 /\ b % 2 = 1 THEN 1 ELSE 0) + 2 * BitAnd(a \div 2, b \div 2)

Min(a, b) == IF a < b THEN a ELSE b

\* A char16_t array initialised from a string literal: each code unit as two
\* bytes (low first), followed by the terminating null code unit.
RECURSIVE char16_array(_)
char16_array(codes) ==
    IF codes = <<>> THEN le16(0)
    ELSE le16(Head(codes)) \o char16_array(Tail(codes))

(***************************************************************************)
(* The descriptor catalog, as the bytes the structures hold in memory.     *)
(***************************************************************************)
languages == le16(LANG_EN_US)
\* u"Wacom Co., Ltd."
manufacturer_en_us ==
    char16_array(<<87, 97, 99, 111, 109, 32, 67, 111, 46, 44, 32, 76, 116, 100, 46>>)
\* u"Software Tablet"
product_en_us ==
    char16_array(<<83, 111, 102, 116, 119, 97, 114, 101, 32, 84, 97, 98, 108, 101, 116>>)
\* u"19830712"
serial_en_us == char16_array(<<49, 57, 56, 51, 48, 55, 49, 50>>)

usb_device ==
    <<18, USB_DT_DEVICE>> \o le16(BCD_USB) \o <<0, 0, 0, EP_MAX_PACKET_CONTROL>>
    \o le16(USB_VENDOR) \o le16(USB_PRODUCT) \o le16(0)
    \o <<STRING_ID_MANUFACTURER, STRING_ID_PRODUCT, STRING_ID_SERIAL, 1>>

usb_qualifier ==
    <<10, USB_DT_DEVICE_QUALIFIER>> \o le16(BCD_USB)
    \o <<0, 0, 0, EP_MAX_PACKET_CONTROL, 1, 0>>

\* wTotalLength is 0 in the global; build_config fills it in the copy.
usb_config ==
    <<9, USB_DT_CONFIG>> \o le16(0) \o <<1, 1, STRING_ID_CONFIG, 192, 50>>

usb_interface == <<9, USB_DT_INTERFACE, 0, 0, 1, 3, 1, 1, STRING_ID_INTERFACE>>

usb_hid_report ==
    << 5, 13, 9, 2, 161, 1, 133, 6, 9, 32, 160, 9, 66, 9, 68, 9, 69, 9, 60, 8,
       9, 50, 20, 37, 1, 117, 1, 149, 6, 129, 2, 149, 2, 129, 3, 5, 1, 9, 48,
       38, 128, 62, 70, 128, 62, 101, 17, 85, 13, 117, 16, 149, 1, 129, 2, 9,
       49, 38, 40, 35, 70, 40, 35, 129, 2, 68, 100, 84, 5, 13, 9, 48, 38, 255,
       3, 117, 16, 129, 2, 192, 192 >>

usb_hid ==
    <<9, HID_DT_HID>> \o le16(272) \o <<0, 1, HID_DT_REPORT>>
    \o le16(Len(usb_hid_report))

\* The first USB_DT_ENDPOINT_SIZE bytes of usb_endpoint, whose
\* bEndpointAddress field is the only mutable part of the catalog.
usb_endpoint_bytes(bEndpointAddress) ==
    <<USB_DT_ENDPOINT_SIZE, USB_DT_ENDPOINT, bEndpointAddress,
      USB_ENDPOINT_XFER_INT>> \o le16(EP_MAX_PACKET_INT) \o <<5>>

usb_endpoint_num(bEndpointAddress) == bEndpointAddress % 16
usb_endpoint_dir_in(bEndpointAddress) == BitAnd(bEndpointAddress, USB_DIR_IN) = USB_DIR_IN
usb_endpoint_dir_out(bEndpointAddress) == BitAnd(bEndpointAddress, USB_DIR_IN) = 0
\* bmAttributes & USB_ENDPOINT_XFERTYPE_MASK of usb_endpoint.
usb_endpoint_type == USB_ENDPOINT_XFER_INT % 4

(***************************************************************************)
(* build_config: the configuration descriptor set assembled into a buffer  *)
(* of `length` bytes.  Each part is guarded by an assert on the room left. *)
(***************************************************************************)
\* A slip in the accumulation: total_length = size for total_length += size.
build_config_part_assigns(st, desc, size) ==
    IF ~st.ok \/ st.length < size
    THEN [st EXCEPT !.ok = FALSE]
    ELSE [ok |-> TRUE,
          data |-> st.data \o SubSeq(desc, 1, size),
          length |-> st.length - size,
          total_length |-> size]

\* assert(length >= size); memcpy; data += size; length -= size;
\* total_length += size.
build_config_part(st, desc, size) ==
    IF ~st.ok \/ st.length < size
    THEN [st EXCEPT !.ok = FALSE]
    ELSE [ok |-> TRUE,
          data |-> st.data \o SubSeq(desc, 1, size),
          length |-> st.length - size,
          total_length |-> st.total_length + size]

build_config(length, bEndpointAddress) ==
    LET s0 == [ok |-> TRUE, data |-> <<>>, length |-> length, total_length |-> 0]
        s1 == build_config_part(s0, usb_config, Len(usb_config))
        s2 == build_config_part(s1, usb_interface, Len(usb_interface))
        s3 == build_config_part(s2, usb_hid, Len(usb_hid))
        s4 == build_config_part(s3, usb_endpoint_bytes(bEndpointAddress),
                                USB_DT_ENDPOINT_SIZE)
        wTotalLength == le16(s4.total_length)
    IN  [ok |-> s4.ok,
         \* config->wTotalLength = __cpu_to_le16(total_length)
         data |-> [i \in 1..Len(s4.data) |->
                     IF i = 3 THEN wTotalLength[1]
                     ELSE IF i = 4 THEN wTotalLength[2]
                     ELSE s4.data[i]],
         total_length |-> s4.total_length]

(***************************************************************************)
(* fill_string_descriptor.  kind is "reply" (returns true), "stall"        *)
(* (returns false) or "abort" (an assert fails).                           *)
(***************************************************************************)
\* A slip in the header: the length byte leaves out the two header bytes.
string_descriptor_short(data) ==
    LET len == Len(data)
        byte0 == U8(len)
    IN  [kind |-> "reply",
         data |-> <<byte0, USB_DT_STRING>> \o data,
         length |-> SChar(byte0)]

\* io->data[0] = len + 2 (stored in a char); io->data[1] = USB_DT_STRING;
\* memcpy(&io->data[2], data, len); io->inner.length = io->data[0].
\* (Every string of the catalog is shorter than 126 bytes, so the char read
\* back is never negative and its conversion to __u32 keeps the value.)
string_descriptor(data) ==
    LET len == Len(data)
        byte0 == U8(len + 2)
    IN  [kind |-> "reply",
         data |-> <<byte0, USB_DT_STRING>> \o data,
         length |-> SChar(byte0)]

fill_string_descriptor(id, lang) ==
    IF id = 0 /\ lang = 0 THEN string_descriptor(languages)
    ELSE IF ~(id > 0) \/ lang # LANG_EN_US
         THEN [kind |-> "abort", data |-> <<>>, length |-> 0]
    ELSE IF id = STRING_ID_MANUFACTURER THEN string_descriptor(manufacturer_en_us)
    ELSE IF id = STRING_ID_PRODUCT THEN string_descriptor(product_en_us)
    ELSE IF id = STRING_ID_SERIAL THEN string_descriptor(serial_en_us)
    ELSE [kind |-> "stall", data |-> <<>>, length |-> 0]

(***************************************************************************)
(* assign_ep_address(info, ep): `ep` is ep->bEndpointAddress and `addr`    *)
(* the function's static counter.  Returns the return value and the new    *)
(* values of both.                                                         *)
(***************************************************************************)
\* A slip: the check for an assigned endpoint left out.
ep_already_assigned_never(ep) == FALSE

\* if (usb_endpoint_num(ep) != 0) return false;  // Already assigned.
ep_already_assigned(ep) == usb_endpoint_num(ep) # 0

\* A slip: the counter is used but not advanced.
next_any_addr_stuck(addr) == addr

\* The value of the static counter after `addr++`.
next_any_addr(addr) == addr + 1

assign_ep_address(info, ep, addr) ==
    LET no == [ret |-> FALSE, ep |-> ep, addr |-> addr]
    IN  IF ep_already_assigned(ep) THEN no
        ELSE IF usb_endpoint_dir_in(ep) /\ ~info.dir_in THEN no
        ELSE IF usb_endpoint_dir_out(ep) /\ ~info.dir_out THEN no
        ELSE IF usb_endpoint_type = USB_ENDPOINT_XFER_BULK /\ ~info.type_bulk THEN no
        ELSE IF usb_endpoint_type = USB_ENDPOINT_XFER_INT /\ ~info.type_int THEN no
        ELSE IF info.addr = USB_RAW_EP_ADDR_ANY
             THEN [ret |-> TRUE, ep |-> U8(BitOr(ep, addr)), addr |-> next_any_addr(addr)]
             ELSE [ret |-> TRUE, ep |-> U8(BitOr(ep, info.addr)), addr |-> addr]

\* A slip in the loop: the list is walked from its last entry to its first.
RECURSIVE process_eps_loop_backwards(_, _, _)
process_eps_loop_backwards(eps, i, st) ==
    IF i > Len(eps) THEN st
    ELSE LET k == Len(eps) + 1 - i
             r == assign_ep_address(eps[k], st.ep, st.addr)
         IN  process_eps_loop_backwards(eps, i + 1,
                 [ep |-> r.ep, addr |-> r.addr,
                  assigned |-> IF r.ret THEN Append(st.assigned, k)
                               ELSE st.assigned])

\* A slip: the list is printed but assign_ep_address is not called.
process_eps_loop_skips(eps, i, st) == st

\* The loop of process_eps_info over the entries i..num of the capability
\* list.  `assigned` collects the indices whose call returned true.
RECURSIVE process_eps_loop(_, _, _)
process_eps_loop(eps, i, st) ==
    IF i > Len(eps) THEN st
    ELSE LET r == assign_ep_address(eps[i], st.ep, st.addr)
         IN  process_eps_loop(eps, i + 1,
                 [ep |-> r.ep, addr |-> r.addr,
                  assigned |-> IF r.ret THEN Append(st.assigned, i)
                               ELSE st.assigned])

\* A slip: the assert after the loop left out.
process_eps_info_unasserted(eps, ep, addr) ==
    LET st == process_eps_loop(eps, 1, [ep |-> ep, addr |-> addr, assigned |-> <<>>])
    IN  [ep |-> st.ep, addr |-> st.addr, assigned |-> st.assigned, ok |-> TRUE]

\* process_eps_info after a successful usb_raw_eps_info: the loop, then
\* assert(int_in_addr != 0).
process_eps_info(eps, ep, addr) ==
    LET st == process_eps_loop(eps, 1, [ep |-> ep, addr |-> addr, assigned |-> <<>>])
    IN  [ep |-> st.ep, addr |-> st.addr, assigned |-> st.assigned,
         ok |-> usb_endpoint_num(st.ep) # 0]

(***************************************************************************)
(* step: one move of the pen.  x and y are __u16 fields of the report.     *)
(***************************************************************************)
\* A slip in the bounds: the turn is taken one step late (> for >=, < for <=).
step_turns_late(rep, dir) ==
    CASE dir = "MOTION_RIGHT" ->
           LET x == U16(rep.x + STEPSIZE)
           IN  [x |-> x, y |-> rep.y,
                direction |-> IF x > MAX_X - BORDER THEN "MOTION_DOWN" ELSE dir]
      [] dir = "MOTION_DOWN" ->
           LET y == U16(rep.y + STEPSIZE)
           IN  [x |-> rep.x, y |-> y,
                direction |-> IF y > MAX_Y - BORDER THEN "MOTION_LEFT" ELSE dir]
      [] dir = "MOTION_LEFT" ->
           LET x == U16(rep.x - STEPSIZE)
           IN  [x |-> x, y |-> rep.y,
                direction |-> IF x < BORDER THEN "MOTION_UP" ELSE dir]
      [] dir = "MOTION_UP" ->
           LET y == U16(rep.y - STEPSIZE)
           IN  [x |-> rep.x, y |-> y,
                direction |-> IF y < BORDER THEN "MOTION_RIGHT" ELSE dir]

\* A slip in the turns: the pen turns back at the far corner instead of up.
step_turns_back(rep, dir) ==
    CASE dir = "MOTION_RIGHT" ->
           LET x == U16(rep.x + STEPSIZE)
           IN  [x |-> x, y |-> rep.y,
                direction |-> IF x >= MAX_X - BORDER THEN "MOTION_DOWN" ELSE dir]
      [] dir = "MOTION_DOWN" ->
           LET y == U16(rep.y + STEPSIZE)
           IN  [x |-> rep.x, y |-> y,
                direction |-> IF y >= MAX_Y - BORDER THEN "MOTION_LEFT" ELSE dir]
      [] dir = "MOTION_LEFT" ->
           LET x == U16(rep.x - STEPSIZE)
           IN  [x |-> x, y |-> rep.y,
                direction |-> IF x <= BORDER THEN "MOTION_RIGHT" ELSE dir]
      [] dir = "MOTION_UP" ->
           LET y == U16(rep.y - STEPSIZE)
           IN  [x |-> rep.x, y |-> y,
                direction |-> IF y <= BORDER THEN "MOTION_RIGHT" ELSE dir]

step(rep, dir) ==
    CASE dir = "MOTION_RIGHT" ->
           LET x == U16(rep.x + STEPSIZE)
           IN  [x |-> x, y |-> rep.y,
                direction |-> IF x >= MAX_X - BORDER THEN "MOTION_DOWN" ELSE dir]
      [] dir = "MOTION_DOWN" ->
           LET y == U16(rep.y + STEPSIZE)
           IN  [x |-> rep.x, y |-> y,
                direction |-> IF y >= MAX_Y - BORDER THEN "MOTION_LEFT" ELSE dir]
      [] dir = "MOTION_LEFT" ->
           LET x == U16(rep.x - STEPSIZE)
           IN  [x |-> x, y |-> rep.y,
                direction |-> IF x <= BORDER THEN "MOTION_UP" ELSE dir]
      [] dir = "MOTION_UP" ->
           LET y == U16(rep.y - STEPSIZE)
           IN  [x |-> rep.x, y |-> y,
                direction |-> IF y <= BORDER THEN "MOTION_RIGHT" ELSE dir]

(***************************************************************************)
(* The state of the running program.                                       *)
(***************************************************************************)
VARIABLES
    proc,               \* "start", "running", "exit_failure", "abort" or
                        \* "exit_success" (main returned 0)
    ep0_pc,             \* ep0_loop: "fetch", "dispatch", "next" or "return"
    usb_endpoint,       \* usb_endpoint.bEndpointAddress
    assign_addr,        \* the static `addr` of assign_ep_address
    ep_int_in,          \* the global handle of the interrupt-IN endpoint
    ep_int_in_thread,   \* the global pthread_t, 0 until a thread is created
    event,              \* the event fetched by the current ep0_loop iteration
    io,                 \* the usb_raw_control_io of the current iteration
    reply,              \* "none", or what ep0_request gave: "reply", "stall"
    response_length,    \* io.inner.length as ep0_request left it
    calls,              \* control-interface calls of the current iteration
    assigned,           \* entries assign_ep_address accepted, this iteration
    gen_pc,             \* ep_int_in_loop: "none", "start", "step", "write", "sleep"
    report,             \* the x and y of the pen_report of ep_int_in_loop
    direction,          \* the static `direction` of step
    int_io,             \* the ep and length of the usb_raw_int_io
    hw_enabled,         \* how many endpoints USB_RAW_IOCTL_EP_ENABLE has enabled
    history             \* counts of what has happened so far

vars == <<proc, ep0_pc, usb_endpoint, assign_addr, ep_int_in, ep_int_in_thread,
          event, io, reply, response_length, calls, assigned, gen_pc, report, direction, int_io,
          hw_enabled, history>>

ctrl_vars == <<ep0_pc, usb_endpoint, assign_addr, ep_int_in, ep_int_in_thread,
               event, io, reply, response_length, calls, assigned, hw_enabled>>
gen_vars == <<gen_pc, report, direction, int_io>>

(***************************************************************************)
(* What the host and the controller may present.                           *)
(***************************************************************************)
Ctrl(bRequestType, bRequest, wValue, wIndex, wLength) ==
    [bRequestType |-> bRequestType, bRequest |-> bRequest, wValue |-> wValue,
     wIndex |-> wIndex, wLength |-> wLength]

NoCtrl == Ctrl(0, 0, 0, 0, 0)
NoEvent == [type |-> "none", ctrl |-> NoCtrl, eps |-> <<>>]
NoIo == [ep |-> 0, flags |-> 0, length |-> 0, data |-> <<>>]
NoIntIo == [ep |-> 0, flags |-> 0, length |-> 0]

WLengths == {0, 8, 18, 34, 255}

ControlRequests ==
    \* GET_DESCRIPTOR for the types the catalog answers
    { Ctrl(USB_DIR_IN, USB_REQ_GET_DESCRIPTOR, t * 256, 0, l) :
        t \in {USB_DT_DEVICE, USB_DT_CONFIG, USB_DT_DEVICE_QUALIFIER, HID_DT_REPORT},
        l \in WLengths }
    \* and for types it does not
    \cup { Ctrl(USB_DIR_IN, USB_REQ_GET_DESCRIPTOR, t * 256, 0, 255) :
             t \in {USB_DT_INTERFACE, HID_DT_HID} }
    \* GET_DESCRIPTOR(STRING) by id and language
    \cup { Ctrl(USB_DIR_IN, USB_REQ_GET_DESCRIPTOR, USB_DT_STRING * 256 + id, lang, l) :
             id \in 0..4, lang \in {0, LANG_EN_US}, l \in {2, 255} }
    \* GET_DESCRIPTOR with the direction bit clear
    \cup { Ctrl(0, USB_REQ_GET_DESCRIPTOR, USB_DT_DEVICE * 256, 0, 18) }
    \cup { Ctrl(0, USB_REQ_SET_CONFIGURATION, 1, 0, 0) }
    \cup { Ctrl(USB_DIR_IN + 1, USB_REQ_GET_INTERFACE, 0, 0, l) : l \in {0, 1} }
    \cup { Ctrl(USB_DIR_IN, USB_REQ_GET_STATUS, 0, 0, 2) }
    \cup { Ctrl(USB_TYPE_CLASS + 1, HID_REQ_SET_REPORT, 512, 0, l) : l \in {0, 1, 8} }
    \cup { Ctrl(USB_TYPE_CLASS + 1, HID_REQ_SET_IDLE, 0, 0, 0) }
    \cup { Ctrl(USB_TYPE_CLASS + 1, HID_REQ_SET_PROTOCOL, 1, 0, 0) }
    \cup { Ctrl(USB_DIR_IN + USB_TYPE_CLASS + 1, HID_REQ_GET_REPORT, 256, 0, 8) }
    \* vendor requests, in both directions
    \cup { Ctrl(d + USB_TYPE_VENDOR, r[1], r[2], r[3], r[4]) :
             d \in {0, USB_DIR_IN},
             r \in { <<1, 0, 0, 0>>, <<1, USB_DT_DEVICE * 256, 0, 8>>,
                     <<USB_REQ_GET_DESCRIPTOR, 0, 1, 0>>,
                     <<USB_REQ_GET_DESCRIPTOR, USB_DT_DEVICE * 256, 1, 8>> } }
    \cup { Ctrl(USB_TYPE_MASK, 0, 0, 0, 0) }

EpInfo(addr, dir_in, dir_out, type_bulk, type_int, maxpacket_limit) ==
    [addr |-> addr, dir_in |-> dir_in, dir_out |-> dir_out,
     type_bulk |-> type_bulk, type_int |-> type_int,
     maxpacket_limit |-> maxpacket_limit]

\* Entries of a capability table: a generic endpoint with no fixed address
\* (packets of up to 64 bytes), an interrupt-IN endpoint with the fixed
\* address 5 (up to 4 bytes), a bulk-IN endpoint with the fixed address 1
\* (up to 512) and an interrupt-OUT endpoint with no fixed address (up to 8).
EpInfos ==
    { EpInfo(USB_RAW_EP_ADDR_ANY, TRUE, TRUE, TRUE, TRUE, 64),
      EpInfo(5, TRUE, FALSE, FALSE, TRUE, 4),
      EpInfo(1, TRUE, FALSE, TRUE, FALSE, 512),
      EpInfo(USB_RAW_EP_ADDR_ANY, FALSE, TRUE, FALSE, TRUE, 8) }

EpsInfos == UNION { [1..n -> EpInfos] : n \in 0..MaxEps }

Events ==
    { [NoEvent EXCEPT !.type = "connect", !.eps = eps] : eps \in EpsInfos }
    \cup { [NoEvent EXCEPT !.type = "control", !.ctrl = ctrl] : ctrl \in ControlRequests }
    \cup { [NoEvent EXCEPT !.type = "other"] }

NoHistory ==
    [ep_int_in_writes |-> 0, writes_at_read |-> -1, threads |-> 0,
     set_idles |-> 0, reports |-> 0, any_assigned |-> 0, fresh |-> 0,
     failed |-> "none", maxpacket_limit |-> 0, enabled_limit |-> 0,
     limit_at_read |-> 0, steps |-> 0]

Init ==
    /\ proc = "start"
    /\ ep0_pc = "fetch"
    /\ usb_endpoint = BitOr(USB_DIR_IN, EP_NUM_INT_IN)
    /\ assign_addr = 1
    /\ ep_int_in = -1
    /\ ep_int_in_thread = 0
    /\ event = NoEvent
    /\ io = NoIo
    /\ reply = "none"
    /\ response_length = 0
    /\ calls = <<>>
    /\ assigned = <<>>
    /\ gen_pc = "none"
    /\ report = [x |-> 0, y |-> 0]
    /\ direction = "MOTION_RIGHT"
    /\ int_io = NoIntIo
    /\ hw_enabled = 0
    /\ history = NoHistory

(***************************************************************************)
(* ep0_request.  The result tells what the function did: kind is "reply"   *)
(* (returned true), "stall" (returned false), "exit" (exit(EXIT_FAILURE),  *)
(* in the function or in a usb_raw_* wrapper it calls) or "abort" (a       *)
(* failed assert); calls are the control-interface calls it issued.        *)
(* `fail` names the call of this iteration the kernel fails, if any.       *)
(***************************************************************************)
Call(op, arg) == [op |-> op, arg |-> arg]

Outcome(kind, length, data) ==
    [kind |-> kind, length |-> length, data |-> data, calls |-> <<>>,
     ep_int_in |-> ep_int_in, enabled |-> 0, create |-> FALSE]

\* exit(EXIT_FAILURE) after printing "fail: no response"
no_response == Outcome("exit", 0, <<>>)

get_descriptor(ctrl) ==
    LET type == ctrl.wValue \div 256
    IN  IF type = USB_DT_DEVICE
        THEN Outcome("reply", Len(usb_device), usb_device)
        ELSE IF type = USB_DT_DEVICE_QUALIFIER
        THEN Outcome("reply", Len(usb_qualifier), usb_qualifier)
        ELSE IF type = USB_DT_CONFIG
        THEN LET c == build_config(EP0_MAX_DATA, usb_endpoint)
             IN  IF c.ok THEN Outcome("reply", c.total_length, c.data)
                 ELSE Outcome("abort", 0, <<>>)
        ELSE IF type = USB_DT_STRING
        THEN LET f == fill_string_descriptor(U8(ctrl.wValue), ctrl.wIndex)
             IN  Outcome(f.kind, f.length, f.data)
        ELSE IF type = HID_DT_REPORT
        THEN Outcome("reply", Len(usb_hid_report), usb_hid_report)
        ELSE no_response

\* The value USB_RAW_IOCTL_EP_ENABLE returns: the index of the hardware
\* endpoint it enabled, or -1 when none is left.  Which of the free
\* endpoints the kernel picks does not matter to the program, so the
\* model numbers them in the order they are enabled.
usb_raw_ep_enable == IF hw_enabled < NumHwEps THEN hw_enabled ELSE -1

\* A slip in the order: the device is marked configured before the
\* endpoint is enabled and the power budget declared.
set_configuration_configures_first(fail) ==
    LET h == usb_raw_ep_enable
        enable == Call("ep_enable", usb_endpoint)
        vbus == Call("vbus_draw", usb_config[9])
        configure == Call("configure", 0)
        done == [Outcome("reply", 0, <<>>) EXCEPT !.ep_int_in = h, !.enabled = 1]
    IN  IF fail = "configure"
        THEN [no_response EXCEPT !.calls = <<configure>>]
        ELSE IF h < 0 \/ fail = "ep_enable"
        THEN [no_response EXCEPT !.calls = <<configure, enable>>]
        ELSE IF fail = "vbus_draw"
        THEN [done EXCEPT !.kind = "exit", !.calls = <<configure, enable, vbus>>]
        ELSE [done EXCEPT !.calls = <<configure, enable, vbus>>]

\* ep_int_in = usb_raw_ep_enable(fd, &usb_endpoint);
\* usb_raw_vbus_draw(fd, usb_config.bMaxPower); usb_raw_configure(fd);
set_configuration(fail) ==
    LET h == usb_raw_ep_enable
        enable == Call("ep_enable", usb_endpoint)
        vbus == Call("vbus_draw", usb_config[9])
        configure == Call("configure", 0)
        done == [Outcome("reply", 0, <<>>) EXCEPT !.ep_int_in = h, !.enabled = 1]
    IN  IF h < 0 \/ fail = "ep_enable"
        THEN [no_response EXCEPT !.calls = <<enable>>]
        ELSE IF fail = "vbus_draw"
        THEN [done EXCEPT !.kind = "exit", !.calls = <<enable, vbus>>]
        ELSE IF fail = "configure"
        THEN [done EXCEPT !.kind = "exit", !.calls = <<enable, vbus, configure>>]
        ELSE [done EXCEPT !.calls = <<enable, vbus, configure>>]

\* A slip: the thread is created whatever the handle holds.
set_idle_creates_thread_always(thread) == TRUE

\* if (!ep_int_in_thread) pthread_create(&ep_int_in_thread, ...)
set_idle_creates_thread(thread) == thread = 0

set_idle ==
    [Outcome("reply", 0, <<>>) EXCEPT
        !.create = set_idle_creates_thread(ep_int_in_thread)]

\* A slip: the vendor branch answers as an unsupported string does.
vendor_request_stalls(ctrl) == Outcome("stall", 0, <<>>)

\* case USB_TYPE_VENDOR: the switch on bRequest has the default case only.
vendor_request(ctrl) == no_response

ep0_request(ctrl, fail) ==
    LET type == BitAnd(ctrl.bRequestType, USB_TYPE_MASK)
    IN  IF type = USB_TYPE_STANDARD
        THEN IF ctrl.bRequest = USB_REQ_GET_DESCRIPTOR THEN get_descriptor(ctrl)
             ELSE IF ctrl.bRequest = USB_REQ_SET_CONFIGURATION
             THEN set_configuration(fail)
             ELSE IF ctrl.bRequest = USB_REQ_GET_INTERFACE
             THEN Outcome("reply", 1, <<usb_interface[4]>>)
             ELSE no_response
        ELSE IF type = USB_TYPE_CLASS
        THEN IF ctrl.bRequest = HID_REQ_SET_REPORT THEN Outcome("reply", 1, <<>>)
             ELSE IF ctrl.bRequest = HID_REQ_SET_IDLE THEN set_idle
             ELSE IF ctrl.bRequest = HID_REQ_SET_PROTOCOL THEN Outcome("reply", 0, <<>>)
             ELSE no_response
        ELSE IF type = USB_TYPE_VENDOR THEN vendor_request(ctrl)
        ELSE no_response

\* A slip in the clamp: the comparison the wrong way round.
ep0_transfer_length_reversed(wLength, length) ==
    IF wLength > length THEN wLength ELSE length

\* if (event.ctrl.wLength < io.inner.length) io.inner.length = event.ctrl.wLength;
ep0_transfer_length(wLength, length) ==
    IF wLength < length THEN wLength ELSE length

\* A slip: the payload is written to the host whatever the direction bit.
ep0_transfer_call_writes(bRequestType) == "ep0_write"

\* if (event.ctrl.bRequestType & USB_DIR_IN) usb_raw_ep0_write else usb_raw_ep0_read
ep0_transfer_call(bRequestType) ==
    IF BitAnd(bRequestType, USB_DIR_IN) # 0 THEN "ep0_write" ELSE "ep0_read"

RequestType(ctrl) == BitAnd(ctrl.bRequestType, USB_TYPE_MASK)
IsSetConfiguration(ctrl) ==
    RequestType(ctrl) = USB_TYPE_STANDARD /\ ctrl.bRequest = USB_REQ_SET_CONFIGURATION
IsSetIdle(ctrl) ==
    RequestType(ctrl) = USB_TYPE_CLASS /\ ctrl.bRequest = HID_REQ_SET_IDLE
IsGetDescriptor(ctrl, type) ==
    /\ RequestType(ctrl) = USB_TYPE_STANDARD
    /\ ctrl.bRequest = USB_REQ_GET_DESCRIPTOR
    /\ ctrl.wValue \div 256 = type

\* The calls of an iteration handling `ctrl` that the kernel may fail.
FailPoints(ctrl) ==
    IF IsSetConfiguration(ctrl)
    THEN {"none", "ep_enable", "vbus_draw", "configure", "ep0"}
    ELSE {"none", "ep0"}

(***************************************************************************)
(* main and ep0_loop.                                                      *)
(***************************************************************************)
\* A slip: the result of the ioctl is not looked at.
usb_raw_checked_ignores(ok) == "running"

\* Every usb_raw_* wrapper: if (rv < 0) { perror(...); exit(EXIT_FAILURE); }
\* The process after a call that succeeded (ok) or failed.
usb_raw_checked(ok) == IF ok THEN "running" ELSE "exit_failure"

\* history after a call of `op` that succeeded (ok) or failed.
Checked(op, ok) == IF ok THEN history ELSE [history EXCEPT !.failed = op]

\* usb_raw_open, usb_raw_init, usb_raw_run: each exits on failure.
MainStart(ok) ==
    /\ proc = "start"
    /\ proc' = usb_raw_checked(ok)
    /\ history' = Checked("init", ok)
    /\ UNCHANGED <<ctrl_vars, gen_vars>>

\* usb_raw_event_fetch(fd, &event): the next event, or exit on failure.
Ep0Fetch(e, ok) ==
    /\ proc = "running"
    /\ ep0_pc = "fetch"
    /\ calls' = <<Call("event_fetch", 0)>>
    /\ proc' = usb_raw_checked(ok)
    /\ history' = Checked("event_fetch", ok)
    /\ IF ok
       THEN event' = e /\ ep0_pc' = "dispatch"
       ELSE event' = event /\ ep0_pc' = ep0_pc
    /\ UNCHANGED <<usb_endpoint, assign_addr, ep_int_in, ep_int_in_thread, io,
                   reply, response_length, assigned, hw_enabled, gen_vars>>

\* An event that is neither a connect nor a control event: continue.
Ep0Other ==
    /\ proc = "running"
    /\ ep0_pc = "dispatch"
    /\ event.type = "other"
    /\ ep0_pc' = "next"
    /\ UNCHANGED <<proc, usb_endpoint, assign_addr, ep_int_in, ep_int_in_thread,
                   event, io, reply, response_length, calls, assigned,
                   hw_enabled, gen_vars, history>>

\* USB_RAW_EVENT_CONNECT: process_eps_info(fd) on the capability list the
\* controller reports (or the query failing), then continue.
Ep0Connect(ok) ==
    /\ proc = "running"
    /\ ep0_pc = "dispatch"
    /\ event.type = "connect"
    /\ ep0_pc' = "next"
    /\ calls' = Append(calls, Call("eps_info", 0))
    /\ IF ~ok
       THEN /\ proc' = usb_raw_checked(ok)
            /\ history' = Checked("eps_info", ok)
            /\ UNCHANGED <<usb_endpoint, assign_addr, assigned>>
       ELSE LET r == process_eps_info(event.eps, usb_endpoint, assign_addr)
            IN  /\ usb_endpoint' = r.ep
                /\ assign_addr' = r.addr
                /\ assigned' = r.assigned
                /\ proc' = IF r.ok THEN proc ELSE "abort"
                /\ history' = [history EXCEPT
                       !.any_assigned = @ + Cardinality(
                           {i \in 1..Len(r.assigned) :
                              event.eps[r.assigned[i]].addr = USB_RAW_EP_ADDR_ANY}),
                       !.maxpacket_limit =
                           IF r.assigned = <<>> THEN @
                           ELSE event.eps[r.assigned[1]].maxpacket_limit]
    /\ UNCHANGED <<ep_int_in, ep_int_in_thread, event, io, reply,
                   response_length, hw_enabled, gen_vars>>

\* The call of the iteration handling `ctrl` that failed, if one did: the
\* last call ep0_request issued when a wrapper in it exited, or the stall or
\* the transfer of ep0_loop.
failed_call(ctrl, r, fail) ==
    IF r.kind = "exit" /\ r.calls # <<>> THEN r.calls[Len(r.calls)].op
    ELSE IF r.kind = "stall" /\ fail = "ep0" THEN "ep0_stall"
    ELSE IF r.kind = "reply" /\ fail = "ep0" THEN ep0_transfer_call(ctrl.bRequestType)
    ELSE "none"

\* USB_RAW_EVENT_CONTROL: ep0_request, then the stall or the transfer.
Ep0Control(fail) ==
    /\ proc = "running"
    /\ ep0_pc = "dispatch"
    /\ event.type = "control"
    /\ ep0_pc' = "next"
    /\ LET ctrl == event.ctrl
           r == ep0_request(ctrl, fail)
           length == ep0_transfer_length(ctrl.wLength, r.length)
       IN  /\ ep_int_in' = r.ep_int_in
           /\ hw_enabled' = hw_enabled + r.enabled
           /\ ep_int_in_thread' = IF r.create THEN 1 ELSE ep_int_in_thread
           /\ gen_pc' = IF r.create THEN "start" ELSE gen_pc
           /\ response_length' = r.length
           /\ history' = [history EXCEPT
                  !.ep_int_in_writes = @ + r.enabled,
                  !.threads = @ + (IF r.create THEN 1 ELSE 0),
                  !.set_idles = IF IsSetIdle(ctrl) THEN Min(@ + 1, SetIdleCap) ELSE @,
                  !.failed = failed_call(ctrl, r, fail),
                  !.enabled_limit = IF r.enabled = 1 THEN history.maxpacket_limit
                                    ELSE @]
           /\ IF r.kind = "exit" \/ r.kind = "abort"
              THEN /\ proc' = IF r.kind = "exit" THEN "exit_failure" ELSE "abort"
                   /\ io' = NoIo
                   /\ reply' = "none"
                   /\ calls' = calls \o r.calls
              ELSE IF r.kind = "stall"
              THEN /\ proc' = usb_raw_checked(fail # "ep0")
                   /\ io' = NoIo
                   /\ reply' = "stall"
                   /\ calls' = calls \o r.calls \o <<Call("ep0_stall", 0)>>
              ELSE /\ proc' = usb_raw_checked(fail # "ep0")
                   /\ io' = [ep |-> 0, flags |-> 0, length |-> length, data |-> r.data]
                   /\ reply' = "reply"
                   /\ calls' = calls \o r.calls
                        \o <<Call(ep0_transfer_call(ctrl.bRequestType), length)>>
    /\ UNCHANGED <<usb_endpoint, assign_addr, event, assigned, report, direction,
                   int_io>>

\* A slip: an event that is neither connect nor control ends the loop.
ep0_loop_done_on_other(e) == e.type = "other"

\* bool done = false; while (!done): nothing in the loop assigns to done,
\* whatever event the iteration handled.
ep0_loop_done(e) == FALSE

\* The end of the loop body: the locals of the iteration are gone, and
\* while (!done) is tested; were it to fail, ep0_loop would return and main
\* close the device and return 0.
Ep0Next ==
    /\ proc = "running"
    /\ ep0_pc = "next"
    /\ ep0_pc' = IF ep0_loop_done(event) THEN "return" ELSE "fetch"
    /\ proc' = IF ep0_loop_done(event) THEN "exit_success" ELSE proc
    /\ event' = NoEvent
    /\ io' = NoIo
    /\ reply' = "none"
    /\ response_length' = 0
    /\ calls' = <<>>
    /\ assigned' = <<>>
    /\ UNCHANGED <<usb_endpoint, assign_addr, ep_int_in, ep_int_in_thread,
                   hw_enabled, gen_vars, history>>

(***************************************************************************)
(* ep_int_in_loop, the thread SET_IDLE creates.                            *)
(***************************************************************************)
\* The locals are set up: io.inner.ep = ep_int_in reads the global.
GenStart ==
    /\ proc = "running"
    /\ gen_pc = "start"
    /\ report' = [x |-> 2000, y |-> 2000]
    /\ int_io' = [ep |-> U16(ep_int_in), flags |-> 0, length |-> REPORT_LENGTH]
    /\ gen_pc' = "step"
    /\ history' = [history EXCEPT !.writes_at_read = history.ep_int_in_writes,
                                  !.limit_at_read = history.enabled_limit]
    /\ UNCHANGED <<proc, ctrl_vars, direction>>

\* step(&report)
GenStepBody ==
    /\ proc = "running"
    /\ gen_pc = "step"
    /\ LET s == step(report, direction)
       IN  /\ report' = [x |-> s.x, y |-> s.y]
           /\ direction' = s.direction
    /\ gen_pc' = "write"
    /\ history' = [history EXCEPT !.steps = Min(@ + 1, MaxSteps)]
    /\ UNCHANGED <<proc, ctrl_vars, int_io>>

GenStep == history.reports < MaxReports /\ GenStepBody

\* A slip: the handle is read from the global before every write.
GenWrite_rereads(ok) ==
    /\ proc = "running"
    /\ gen_pc = "write"
    /\ proc' = usb_raw_checked(ok)
    /\ gen_pc' = IF ok THEN "sleep" ELSE gen_pc
    /\ history' = [Checked("ep_write", ok) EXCEPT !.reports = Min(@ + 1, MaxReports)]
    /\ int_io' = [int_io EXCEPT !.ep = U16(ep_int_in)]
    /\ UNCHANGED <<ctrl_vars, report, direction>>

\* usb_raw_ep_write(fd, &io): exits the process on failure.
GenWrite(ok) ==
    /\ proc = "running"
    /\ gen_pc = "write"
    /\ proc' = usb_raw_checked(ok)
    /\ gen_pc' = IF ok THEN "sleep" ELSE gen_pc
    /\ history' = [Checked("ep_write", ok) EXCEPT !.reports = Min(@ + 1, MaxReports)]
    /\ UNCHANGED <<ctrl_vars, report, direction, int_io>>

\* A slip: the generator waits for ep0_loop to be between two events
\* before it goes round again.
GenSleep_waits_for_ep0 ==
    /\ proc = "running"
    /\ gen_pc = "sleep"
    /\ ep0_pc = "fetch"
    /\ gen_pc' = "step"
    /\ UNCHANGED <<proc, ctrl_vars, report, direction, int_io, history>>

\* nanosleep of 10 ms
GenSleep ==
    /\ proc = "running"
    /\ gen_pc = "sleep"
    /\ gen_pc' = "step"
    /\ UNCHANGED <<proc, ctrl_vars, report, direction, int_io, history>>

Next ==
    \/ \E ok \in BOOLEAN : MainStart(ok)
    \/ \E e \in Events, ok \in BOOLEAN : Ep0Fetch(e, ok)
    \/ Ep0Other
    \/ \E ok \in BOOLEAN : Ep0Connect(ok)
    \/ \E fail \in FailPoints(event.ctrl) : Ep0Control(fail)
    \/ Ep0Next
    \/ GenStart
    \/ GenStep
    \/ \E ok \in BOOLEAN : GenWrite(ok)
    \/ GenSleep

Spec == Init /\ [][Next]_vars

(***************************************************************************)
(* The report generator on its own, from the state in which SET_IDLE has   *)
(* just created its thread (after a connect event assigned address 1 and   *)
(* SET_CONFIGURATION enabled the endpoint), followed round the whole path. *)
(***************************************************************************)
InitMotion ==
    /\ proc = "running"
    /\ ep0_pc = "fetch"
    /\ usb_endpoint = USB_DIR_IN + 1
    /\ assign_addr = 2
    /\ ep_int_in = 0
    /\ ep_int_in_thread = 1
    /\ event = NoEvent
    /\ io = NoIo
    /\ reply = "none"
    /\ response_length = 0
    /\ calls = <<>>
    /\ assigned = <<>>
    /\ gen_pc = "start"
    /\ report = [x |-> 0, y |-> 0]
    /\ direction = "MOTION_RIGHT"
    /\ int_io = NoIntIo
    /\ hw_enabled = 1
    /\ history = [NoHistory EXCEPT !.ep_int_in_writes = 1, !.threads = 1,
                                   !.set_idles = 1, !.any_assigned = 1,
                                   !.maxpacket_limit = 64, !.enabled_limit = 64]

NextMotion ==
    \/ GenStart
    \/ GenStepBody
    \/ \E ok \in BOOLEAN : GenWrite(ok)
    \/ GenSleep

SpecMotion == InitMotion /\ [][NextMotion]_vars

(***************************************************************************)
(* The generator beside a working control plane, from the same state: the  *)
(* generator is followed round the whole path while ep0_loop handles       *)
(* events of each kind.  The generator's thread is scheduled fairly;       *)
(* nothing is assumed of ep0_loop, which may stay blocked in a fetch or a  *)
(* transfer for ever.                                                      *)
(***************************************************************************)
LiveEvents ==
    { [NoEvent EXCEPT !.type = "other"],
      [NoEvent EXCEPT !.type = "connect",
                      !.eps = <<EpInfo(USB_RAW_EP_ADDR_ANY, TRUE, TRUE, TRUE, TRUE, 64)>>],
      [NoEvent EXCEPT !.type = "control",
                      !.ctrl = Ctrl(USB_DIR_IN, USB_REQ_GET_DESCRIPTOR,
                                    USB_DT_DEVICE * 256, 0, 18)],
      [NoEvent EXCEPT !.type = "control",
                      !.ctrl = Ctrl(0, USB_REQ_SET_CONFIGURATION, 1, 0, 0)],
      [NoEvent EXCEPT !.type = "control",
                      !.ctrl = Ctrl(USB_TYPE_CLASS + 1, HID_REQ_SET_IDLE, 0, 0, 0)],
      [NoEvent EXCEPT !.type = "control",
                      !.ctrl = Ctrl(USB_TYPE_VENDOR, 1, 0, 0, 0)] }

NextLive ==
    \/ \E e \in LiveEvents, ok \in BOOLEAN : Ep0Fetch(e, ok)
    \/ Ep0Other
    \/ \E ok \in BOOLEAN : Ep0Connect(ok)
    \/ \E fail \in FailPoints(event.ctrl) : Ep0Control(fail)
    \/ Ep0Next
    \/ GenStart
    \/ GenStepBody
    \/ \E ok \in BOOLEAN : GenWrite(ok)
    \/ GenSleep

SpecLive ==
    /\ InitMotion
    /\ [][NextLive]_vars
    /\ WF_vars(GenStart)
    /\ WF_vars(GenStepBody)
    /\ WF_vars(\E ok \in BOOLEAN : GenWrite(ok))
    /\ WF_vars(GenSleep)

(***************************************************************************)
(* assign_ep_address on its own: the function is applied to one capability *)
(* entry at a time, and to further endpoint descriptors whose address is   *)
(* still EP_NUM_INT_IN, as a gadget with several endpoints would.          *)
(***************************************************************************)
AssignOne(info) ==
    /\ LET r == assign_ep_address(info, usb_endpoint, assign_addr)
       IN  /\ usb_endpoint' = r.ep
           /\ assign_addr' = r.addr
           /\ assigned' = IF r.ret THEN <<1>> ELSE <<>>
           /\ history' = [history EXCEPT !.any_assigned =
                  IF r.ret /\ info.addr = USB_RAW_EP_ADDR_ANY THEN @ + 1 ELSE @]
    /\ event' = [NoEvent EXCEPT !.type = "connect", !.eps = <<info>>]
    /\ UNCHANGED <<proc, ep0_pc, ep_int_in, ep_int_in_thread, io, reply,
                   response_length, calls, hw_enabled, gen_vars>>

FreshEndpoint ==
    /\ history.fresh < MaxFresh
    /\ usb_endpoint' = BitOr(USB_DIR_IN, EP_NUM_INT_IN)
    /\ assigned' = <<>>
    /\ history' = [history EXCEPT !.fresh = @ + 1]
    /\ UNCHANGED <<proc, ep0_pc, assign_addr, ep_int_in, ep_int_in_thread, event,
                   io, reply, response_length, calls, hw_enabled, gen_vars>>

NextAssign ==
    \/ \E info \in EpInfos : AssignOne(info)
    \/ FreshEndpoint

SpecAssign == Init /\ [][NextAssign]_vars

(***************************************************************************)
(* Properties.                                                             *)
(***************************************************************************)
\* The ep0 transfers among the calls of the current iteration.
Ep0Transfers == SelectSeq(calls, LAMBDA c : c.op \in {"ep0_write", "ep0_read"})
\* The bytes of the buffer the ep0 transfer covers.
Transferred == SubSeq(io.data, 1, Min(io.length, Len(io.data)))

\* C1: whenever ep0_request answered with a payload, ep0_loop issues one ep0
\* transfer whose length is min(wLength, response length): wLength when it
\* is the smaller, the untruncated response length otherwise; for
\* GET_DESCRIPTOR(DEVICE), 18 bytes for wLength = 18 and the first 8 bytes
\* for wLength = 8.
C1_TransferLengthIsMin ==
    (ep0_pc = "next" /\ reply = "reply") =>
        LET wLength == event.ctrl.wLength
            xfers == Ep0Transfers
        IN  /\ Len(xfers) = 1
            /\ xfers[1].arg = io.length
            /\ (wLength < response_length => io.length = wLength)
            /\ (wLength >= response_length => io.length = response_length)
            /\ IsGetDescriptor(event.ctrl, USB_DT_DEVICE) =>
                 /\ response_length = 18
                 /\ (wLength = 18 => io.length = 18 /\ Transferred = usb_device)
                 /\ (wLength = 8 =>
                       io.length = 8 /\ Transferred = SubSeq(usb_device, 1, 8))

C1_Witness ==
    /\ ep0_pc = "next"
    /\ reply = "reply"
    /\ IsGetDescriptor(event.ctrl, USB_DT_DEVICE)
    /\ event.ctrl.wLength = 8
    /\ response_length = 18
    /\ io.length = 8
    /\ Ep0Transfers = <<Call("ep0_write", 8)>>

\* C2: every answer to GET_DESCRIPTOR(CONFIG), whatever the endpoint address
\* is by then, has the length 9 + 9 + 9 + 7 = 34, carries 34 in wTotalLength
\* and is the configuration, interface, HID and endpoint descriptors in that
\* order.
C2_ConfigTotalLength ==
    (ep0_pc = "next" /\ event.type = "control"
       /\ IsGetDescriptor(event.ctrl, USB_DT_CONFIG)) =>
        LET sum == Len(usb_config) + Len(usb_interface) + Len(usb_hid)
                     + USB_DT_ENDPOINT_SIZE
        IN  /\ reply = "reply"
            /\ sum = 34
            /\ response_length = sum
            /\ Len(io.data) = sum
            /\ io.data[3] + 256 * io.data[4] = sum
            /\ SubSeq(io.data, 1, 2) = SubSeq(usb_config, 1, 2)
            /\ SubSeq(io.data, 5, 9) = SubSeq(usb_config, 5, 9)
            /\ SubSeq(io.data, 10, 18) = usb_interface
            /\ SubSeq(io.data, 19, 27) = usb_hid
            /\ SubSeq(io.data, 28, 34) = usb_endpoint_bytes(usb_endpoint)

C2_Witness ==
    /\ ep0_pc = "next"
    /\ reply = "reply"
    /\ IsGetDescriptor(event.ctrl, USB_DT_CONFIG)
    /\ usb_endpoint_num(usb_endpoint) # 0
    /\ io.data[3] = 34
    /\ io.data[30] = usb_endpoint

\* The strings the catalog defines, by id and language.
DefinedStrings ==
    { [id |-> 0, lang |-> 0, payload |-> languages],
      [id |-> STRING_ID_MANUFACTURER, lang |-> LANG_EN_US, payload |-> manufacturer_en_us],
      [id |-> STRING_ID_PRODUCT, lang |-> LANG_EN_US, payload |-> product_en_us],
      [id |-> STRING_ID_SERIAL, lang |-> LANG_EN_US, payload |-> serial_en_us] }

\* C3: for each defined string (manufacturer, product, serial in 0x0409 and
\* the language list for id 0, language 0) the response is byte 0 = N + 2,
\* byte 1 = USB_DT_STRING, then the N payload bytes, and the response
\* length is byte 0.
C3_StringDescriptorFormat ==
    \A d \in DefinedStrings :
        (ep0_pc = "next" /\ event.type = "control"
           /\ IsGetDescriptor(event.ctrl, USB_DT_STRING)
           /\ event.ctrl.wValue % 256 = d.id /\ event.ctrl.wIndex = d.lang) =>
            LET N == Len(d.payload)
            IN  /\ reply = "reply"
                /\ io.data[1] = N + 2
                /\ io.data[2] = USB_DT_STRING
                /\ Len(io.data) = N + 2
                /\ SubSeq(io.data, 3, N + 2) = d.payload
                /\ response_length = io.data[1]

C3_Witness ==
    /\ ep0_pc = "next"
    /\ reply = "reply"
    /\ IsGetDescriptor(event.ctrl, USB_DT_STRING)
    /\ event.ctrl.wValue % 256 = STRING_ID_SERIAL
    /\ event.ctrl.wIndex = LANG_EN_US
    /\ io.data[1] = 20
    /\ response_length = 20

\* C4: once the generator has set up its report at (2000, 2000), every
\* position step produces lies in [2000, 14000] x [2000, 7000].
C4_PositionInRectangle ==
    gen_pc \in {"step", "write", "sleep"} =>
        /\ BORDER <= report.x /\ report.x <= MAX_X - BORDER
        /\ BORDER <= report.y /\ report.y <= MAX_Y - BORDER
        /\ MAX_X - BORDER = 14000 /\ MAX_Y - BORDER = 7000 /\ BORDER = 2000

\* The far corner of the path, reached by a step.
C4_Witness ==
    gen_pc = "write" /\ report = [x |-> 14000, y |-> 7000]

\* The direction step takes up when it leaves `dir`.
next_direction(dir) ==
    CASE dir = "MOTION_RIGHT" -> "MOTION_DOWN"
      [] dir = "MOTION_DOWN" -> "MOTION_LEFT"
      [] dir = "MOTION_LEFT" -> "MOTION_UP"
      [] dir = "MOTION_UP" -> "MOTION_RIGHT"

\* The corner of the rectangle at which the pen starts to move in `dir`.
corner(dir) ==
    CASE dir = "MOTION_RIGHT" -> [x |-> BORDER, y |-> BORDER]
      [] dir = "MOTION_DOWN" -> [x |-> MAX_X - BORDER, y |-> BORDER]
      [] dir = "MOTION_LEFT" -> [x |-> MAX_X - BORDER, y |-> MAX_Y - BORDER]
      [] dir = "MOTION_UP" -> [x |-> BORDER, y |-> MAX_Y - BORDER]

\* C5: the direction only ever changes to the next one of the cycle right,
\* down, left, up, right, and it changes exactly at the corners of the
\* rectangle: each direction is taken up at its own corner and kept until
\* the next corner, so a traversal visits each of the four once.
C5_DirectionCycle ==
    [][ /\ direction' # direction =>
             /\ direction' = next_direction(direction)
             /\ report' = corner(direction')
        /\ (gen_pc = "step" /\ gen_pc' = "write"
              /\ report' = corner(next_direction(direction))) =>
             direction' = next_direction(direction)
      ]_vars

\* Back at the start, heading right again, after a full traversal.
C5_Witness ==
    gen_pc = "write" /\ report = [x |-> 2000, y |-> 2000]
      /\ direction = "MOTION_RIGHT"

\* C6: the generator thread is created by the first SET_IDLE handled and by
\* no later one: the number of threads created so far is 0 before any
\* SET_IDLE and 1 after however many.
C6_ThreadStartedOnce ==
    /\ history.threads = Min(history.set_idles, 1)
    /\ (ep_int_in_thread # 0) = (history.threads = 1)
    /\ (gen_pc # "none") = (history.threads = 1)

C6_Witness ==
    /\ history.set_idles = SetIdleCap
    /\ history.threads = 1
    /\ ep0_pc = "next"
    /\ IsSetIdle(event.ctrl)

\* C7: ep_int_in is written once before the generator thread is started and
\* never after, and the generator does not read it before it was written.
C7_WrittenOnceBeforeStart ==
    /\ history.threads > 0 => history.ep_int_in_writes = 1
    /\ history.writes_at_read # -1 => history.writes_at_read >= 1

\* C8: a SET_CONFIGURATION handled while the endpoint is already enabled
\* issues no endpoint-enable call and enables no further endpoint.
C8_NoSecondEnable ==
    [][ (ep0_pc = "dispatch" /\ event.type = "control"
           /\ IsSetConfiguration(event.ctrl) /\ hw_enabled > 0
           /\ ep0_pc' = "next") =>
          /\ \A i \in 1..Len(calls') : calls'[i].op # "ep_enable"
          /\ hw_enabled' = hw_enabled
      ]_vars

\* C9: once the endpoint carries a nonzero address no step, and so no later
\* negotiation with whatever capability list, changes the address or
\* advances the counter of assign_ep_address.
C9_NegotiationIdempotent ==
    [][ usb_endpoint_num(usb_endpoint) # 0 =>
          (usb_endpoint' = usb_endpoint /\ assign_addr' = assign_addr) ]_vars

\* A negotiation that ran over a list with a compatible "any address" entry
\* and assigned nothing, the endpoint having its address already.
C9_Witness ==
    /\ ep0_pc = "next"
    /\ proc = "running"
    /\ event.type = "connect"
    /\ assigned = <<>>
    /\ usb_endpoint_num(usb_endpoint) # 0
    /\ \E i \in 1..Len(event.eps) :
          /\ event.eps[i].addr = USB_RAW_EP_ADDR_ANY
          /\ event.eps[i].dir_in /\ event.eps[i].type_int

\* C10: the k-th assignment from an "any address" capability gives the
\* endpoint the number k (1 for the first, one more each time); an
\* assignment from a capability with a fixed address gives that address
\* and leaves the counter alone.
C10_AnyAddressCounts ==
    /\ assign_addr = 1 + history.any_assigned
    /\ assigned # <<>> =>
         LET info == event.eps[assigned[1]]
         IN  IF info.addr = USB_RAW_EP_ADDR_ANY
             THEN /\ usb_endpoint_num(usb_endpoint) = history.any_assigned
                  /\ usb_endpoint = USB_DIR_IN + history.any_assigned
             ELSE /\ usb_endpoint_num(usb_endpoint) = info.addr
                  /\ usb_endpoint = USB_DIR_IN + info.addr

\* The third "any address" assignment, made after an assignment from a
\* capability with a fixed address.
C10_Witness ==
    /\ assigned # <<>>
    /\ event.eps[1].addr = USB_RAW_EP_ADDR_ANY
    /\ history.any_assigned = 3
    /\ history.fresh = 3
    /\ usb_endpoint_num(usb_endpoint) = 3

\* The calls of the current iteration with the given name.
CallsOf(op) == SelectSeq(calls, LAMBDA c : c.op = op)

\* C11: a vendor-class control request, whatever its direction, request
\* code, value, index and wLength, ends the process with
\* exit(EXIT_FAILURE): ep0_request does not return, and the iteration
\* issues neither a stall nor an ep0 transfer.
C11_VendorRequestFatal ==
    (ep0_pc = "next" /\ event.type = "control"
       /\ RequestType(event.ctrl) = USB_TYPE_VENDOR) =>
        /\ proc = "exit_failure"
        /\ reply = "none"
        /\ CallsOf("ep0_stall") = <<>>
        /\ Ep0Transfers = <<>>
        /\ calls = <<Call("event_fetch", 0)>>

\* A vendor request that carries the code and value of GET_DESCRIPTOR(DEVICE).
C11_Witness ==
    /\ ep0_pc = "next"
    /\ event.type = "control"
    /\ event.ctrl = Ctrl(USB_DIR_IN + USB_TYPE_VENDOR, USB_REQ_GET_DESCRIPTOR,
                         USB_DT_DEVICE * 256, 1, 8)
    /\ proc = "exit_failure"

\* What ep0_loop has issued for the control event of this iteration.
C12_PerEvent ==
    (ep0_pc = "next" /\ event.type = "control") =>
        /\ reply = "reply" =>
              /\ Len(Ep0Transfers) = 1
              /\ Ep0Transfers[1].op =
                    IF event.ctrl.bRequestType \div 128 = 1 THEN "ep0_write"
                    ELSE "ep0_read"
              /\ CallsOf("ep0_stall") = <<>>
        /\ reply = "stall" =>
              /\ Len(CallsOf("ep0_stall")) = 1
              /\ Ep0Transfers = <<>>

\* C12: for each control event, a payload outcome of ep0_request is followed
\* by exactly one ep0 transfer, a write when bit 7 of bRequestType is set
\* and a read when it is clear, and by no stall; a stall outcome by exactly
\* one ep0 stall and no transfer, after which (the stall call having
\* succeeded) the loop goes back to fetch the next event.
C12_OneTransferOrStall ==
    [][ /\ C12_PerEvent'
        /\ (ep0_pc = "next" /\ reply = "stall" /\ proc = "running"
              /\ ep0_pc' # ep0_pc) =>
             (ep0_pc' = "fetch" /\ proc' = "running")
      ]_vars

\* SET_REPORT, an OUT request with a payload outcome: one ep0 read.
C12_Witness ==
    /\ ep0_pc = "next"
    /\ reply = "reply"
    /\ event.ctrl.bRequestType = USB_TYPE_CLASS + 1
    /\ event.ctrl.bRequest = HID_REQ_SET_REPORT
    /\ calls = <<Call("event_fetch", 0), Call("ep0_read", 1)>>

\* C13: GET_DESCRIPTOR(STRING) for a string id the table has no entry for
\* makes ep0_request return the stall outcome and ep0_loop stall ep0: no
\* payload is transferred and the process is not terminated by the request.
C13_UnknownStringStalls ==
    (ep0_pc = "next" /\ event.type = "control"
       /\ IsGetDescriptor(event.ctrl, USB_DT_STRING)
       /\ event.ctrl.wValue % 256 \notin {d.id : d \in DefinedStrings}) =>
        /\ reply = "stall"
        /\ Len(CallsOf("ep0_stall")) = 1
        /\ Ep0Transfers = <<>>
        /\ proc # "abort"

\* C14: a standard GET_DESCRIPTOR for a descriptor type other than device,
\* device qualifier, configuration, string and HID report is answered with
\* one ep0 stall and nothing else, and the process keeps running.
C14_UnsupportedDescriptorStalls ==
    (ep0_pc = "next" /\ event.type = "control"
       /\ event.ctrl.bRequestType = USB_DIR_IN
       /\ event.ctrl.bRequest = USB_REQ_GET_DESCRIPTOR
       /\ event.ctrl.wValue \div 256 \notin
            {USB_DT_DEVICE, USB_DT_DEVICE_QUALIFIER, USB_DT_CONFIG,
             USB_DT_STRING, HID_DT_REPORT}) =>
        /\ reply = "stall"
        /\ Len(CallsOf("ep0_stall")) = 1
        /\ Ep0Transfers = <<>>
        /\ proc # "abort"

CompatibleIntIn(info) == info.dir_in /\ info.type_int

\* C15: when process_eps_info runs with the interrupt-IN endpoint still
\* unassigned and no entry of the capability list is IN and interrupt
\* capable, the endpoint stays unassigned and the process ends there (by
\* the failed assert, the capability query itself having succeeded); an
\* aborted process takes no further step: no event is fetched and no
\* request answered after it.
C15_NoCompatibleFatal ==
    [][ /\ proc # "abort"
        /\ (ep0_pc = "dispatch" /\ event.type = "connect" /\ ep0_pc' = "next"
              /\ usb_endpoint_num(usb_endpoint) = 0
              /\ \A i \in 1..Len(event.eps) : ~CompatibleIntIn(event.eps[i])) =>
             /\ proc' # "running"
             /\ history'.failed = "none" => proc' = "abort"
             /\ usb_endpoint' = usb_endpoint
      ]_vars

\* A list of two entries, neither of them IN and interrupt capable.
C15_Witness ==
    /\ proc = "abort"
    /\ ep0_pc = "next"
    /\ event.type = "connect"
    /\ Len(event.eps) = 2
    /\ \A i \in 1..Len(event.eps) : ~CompatibleIntIn(event.eps[i])
    /\ usb_endpoint_num(usb_endpoint) = 0

C18_SetConfigurationOrder ==
    (ep0_pc = "next" /\ event.type = "control" /\ IsSetConfiguration(event.ctrl)) =>
        LET order == <<Call("event_fetch", 0), Call("ep_enable", usb_endpoint),
                       Call("vbus_draw", 50), Call("configure", 0),
                       Call("ep0_read", 0)>>
        IN  /\ usb_config[9] = 50
            /\ Len(calls) \in 2..5
            /\ calls = SubSeq(order, 1, Len(calls))
            /\ (reply = "reply") = (Len(calls) = 5)
            /\ reply = "reply" => response_length = 0
            /\ reply # "stall"

\* The request served in full while the endpoint carries the address 5.
C18_Witness ==
    /\ ep0_pc = "next"
    /\ proc = "running"
    /\ reply = "reply"
    /\ calls = <<Call("event_fetch", 0), Call("ep_enable", USB_DIR_IN + 5),
                 Call("vbus_draw", 50), Call("configure", 0),
                 Call("ep0_read", 0)>>

\* The lowest index of a compatible entry of the capability list.
FirstCompatible(eps) ==
    CHOOSE i \in 1..Len(eps) :
        /\ CompatibleIntIn(eps[i])
        /\ \A j \in 1..(i - 1) : ~CompatibleIntIn(eps[j])

\* C19: a negotiation that starts with the endpoint unassigned takes the
\* address from the first compatible entry of the list and from no other:
\* that entry is the only one assign_ep_address accepts, the address is its
\* fixed address or, for "any address", the value of the counter, and the
\* counter advances by one in the latter case only; no step advances the
\* counter by more than one.
C19_FirstCompatibleWins ==
    [][ /\ assign_addr' - assign_addr \in {0, 1}
        /\ (ep0_pc = "dispatch" /\ event.type = "connect" /\ ep0_pc' = "next"
              /\ usb_endpoint_num(usb_endpoint) = 0
              /\ history'.failed = "none"
              /\ \E i \in 1..Len(event.eps) : CompatibleIntIn(event.eps[i])) =>
             LET first == FirstCompatible(event.eps)
                 info == event.eps[first]
                 any == info.addr = USB_RAW_EP_ADDR_ANY
             IN  /\ assigned' = <<first>>
                 /\ usb_endpoint' =
                       USB_DIR_IN + (IF any THEN assign_addr ELSE info.addr)
                 /\ assign_addr' = assign_addr + (IF any THEN 1 ELSE 0)
      ]_vars

\* Two compatible entries, "any address" before the fixed address 5: the
\* endpoint has the address 1 of the counter.
C19_Witness ==
    /\ ep0_pc = "next"
    /\ event.type = "connect"
    /\ Len(event.eps) >= 2
    /\ CompatibleIntIn(event.eps[1]) /\ event.eps[1].addr = USB_RAW_EP_ADDR_ANY
    /\ CompatibleIntIn(event.eps[2]) /\ event.eps[2].addr = 5
    /\ assigned = <<1>>
    /\ usb_endpoint = USB_DIR_IN + 1
    /\ assign_addr = 2

\* C20: every interrupt-IN transfer of the generator has the length 8,
\* whatever the endpoint; and when the capability entry the endpoint was
\* negotiated from, and then enabled with, allows packets of fewer than 8
\* bytes, no report is written to it: the process ends before that.
C20_ReportLengthFitsEndpoint ==
    /\ gen_pc \in {"step", "write", "sleep"} => int_io.length = 8
    /\ history.limit_at_read \in 1..7 => gen_pc # "sleep"

\* C21: ep0_loop never returns: whatever events it is given, every step
\* leaves the process running inside the loop (fetching, handling, or at
\* the end of an iteration, from which it goes back to fetch) or ended by
\* exit(EXIT_FAILURE) or abort; close(fd) and return 0 in main are never
\* reached.
C21_LoopNeverReturns ==
    [][ /\ proc' \in {"running", "exit_failure", "abort"}
        /\ ep0_pc' \in {"fetch", "dispatch", "next"}
        /\ (ep0_pc = "next" /\ ep0_pc' # "next") =>
             (ep0_pc' = "fetch" /\ proc' = "running")
      ]_vars

\* Back at the fetch after a connect event, a SET_CONFIGURATION and a
\* SET_IDLE have been handled.
C21_Witness ==
    /\ proc = "running"
    /\ ep0_pc = "fetch"
    /\ usb_endpoint_num(usb_endpoint) # 0
    /\ hw_enabled >= 1
    /\ history.set_idles >= 1
    /\ gen_pc = "sleep"

\* C22: once the generator thread has been created, and as long as the
\* process lives (which fair scheduling of the thread presupposes), a
\* report is written again and again, whatever ep0_loop does or fails to
\* do; and the generator only ever goes from its set-up to step, from step
\* to the interrupt-IN write, from the write to the sleep and from the
\* sleep to step.
C22_GeneratorLive ==
    /\ (history.threads > 0) ~> (gen_pc = "sleep" \/ proc # "running")
    /\ (gen_pc = "sleep") ~> (gen_pc = "write" \/ proc # "running")
    /\ [][ gen_pc' # gen_pc =>
             <<gen_pc, gen_pc'>> \in { <<"start", "step">>, <<"step", "write">>,
                                       <<"write", "sleep">>, <<"sleep", "step">> }
         ]_vars

\* A report written while ep0_loop waits in usb_raw_event_fetch, a full
\* traversal after the first.
C22_Witness ==
    /\ gen_pc = "sleep"
    /\ proc = "running"
    /\ ep0_pc = "fetch"
    /\ report = [x |-> 2000, y |-> 2000]
    /\ direction = "MOTION_RIGHT"

\* C23: the generator reads ep_int_in in one step only, the set-up of its
\* thread, which it never repeats; the usb_raw_int_io it passes to every
\* write keeps the value captured there (as a __u16), whatever
\* SET_CONFIGURATION writes to ep_int_in afterwards.
C23_HandleReadOnce ==
    [][ /\ (gen_pc = "start" /\ gen_pc' # "start") =>
             /\ gen_pc' = "step"
             /\ int_io'.ep = (ep_int_in + 65536) % 65536
        /\ gen_pc # "start" => int_io' = int_io
        /\ gen_pc \in {"step", "write", "sleep"} =>
             gen_pc' \in {"step", "write", "sleep"}
      ]_vars

\* A second SET_CONFIGURATION has just stored the handle 1 in ep_int_in
\* while the generator is about to write with the handle 0 it captured.
C23_Witness ==
    /\ proc = "running"
    /\ ep0_pc = "next"
    /\ event.type = "control"
    /\ IsSetConfiguration(event.ctrl)
    /\ ep_int_in = 1
    /\ gen_pc = "write"
    /\ int_io.ep = 0

\* The position after k calls of step, as the claim counts the legs: 120
\* steps right, 50 down, 120 left, 50 up.
PositionAfter(k) ==
    IF k <= 120 THEN [x |-> 2000 + 100 * k, y |-> 2000]
    ELSE IF k <= 170 THEN [x |-> 14000, y |-> 2000 + 100 * (k - 120)]
    ELSE IF k <= 290 THEN [x |-> 14000 - 100 * (k - 170), y |-> 7000]
    ELSE [x |-> 2000, y |-> 7000 - 100 * (k - 290)]

\* The direction the next call of step moves in, after k calls.
DirectionAfter(k) ==
    IF k < 120 THEN "MOTION_RIGHT"
    ELSE IF k < 170 THEN "MOTION_DOWN"
    ELSE IF k < 290 THEN "MOTION_LEFT"
    ELSE IF k < 340 THEN "MOTION_UP"
    ELSE "MOTION_RIGHT"

\* C24: from (2000, 2000, right) the k-th call of step, for k up to 340,
\* leaves the pen where 120 steps right, 50 down, 120 left and 50 up lead;
\* after 340 calls the state is (2000, 2000, right) again and after no
\* smaller number of calls; the first report written is (2100, 2000).
C24_MotionPeriod ==
    (gen_pc \in {"step", "write", "sleep"} /\ history.steps <= 340) =>
        LET k == history.steps
            home == report = [x |-> 2000, y |-> 2000] /\ direction = "MOTION_RIGHT"
        IN  /\ report = PositionAfter(k)
            /\ direction = DirectionAfter(k)
            /\ home = (k = 0 \/ k = 340)
            /\ (gen_pc = "write" /\ history.reports = 0) =>
                  (k = 1 /\ report = [x |-> 2100, y |-> 2000])

\* The 340th call of step has brought the pen back.
C24_Witness ==
    /\ gen_pc = "write"
    /\ history.steps = 340
    /\ report = [x |-> 2000, y |-> 2000]
    /\ direction = "MOTION_RIGHT"

====
